---- MODULE Spec2Model ----
(***************************************************************************)
(* Model of the PomodoroTimer React component (src/unnamed/part_000, the   *)
(* version with settings, statistics, mute and localStorage persistence).  *)
(*                                                                         *)
(* Component state (useState hooks) are the variables; every event handler *)
(* and every timer callback is one action, taken together with the         *)
(* re-render it causes and the effects that re-render runs (the save       *)
(* effects and the tick effect with its cleanup).  A state updater is      *)
(* invoked once per dispatched update.                                     *)
(***************************************************************************)
EXTENDS Integers, Sequences, FiniteSets

\* ---------------------------------------------------------------- bounds
MaxPomodoros == 2      \* completed work sessions are followed up to this count
MaxEdits == 1          \* settings edits followed per run

\* ------------------------------------------------------- JavaScript values
NaN == -99             \* the number NaN: parseInt of a non-numeric string
Null == -98            \* JSON null: what JSON.stringify writes for NaN

IsNum(x) == x # NaN /\ x # Null

\* a borrow that takes two minutes
Minus2(x) == IF IsNum(x) THEN x - 2 ELSE NaN

\* x - 1 in JavaScript: NaN - 1 is NaN, null - 1 is -1
Minus1(x) == IF x = NaN THEN NaN ELSE IF x = Null THEN -1 ELSE x - 1

TimerTypes == {"work", "shortBreak", "longBreak"}

DefaultTimerSettings == [work |-> 25, shortBreak |-> 5, longBreak |-> 15]

DefaultTime == [minutes |-> 25, seconds |-> 0]

\* ------------------------------------------------------------ persistence
\* A localStorage slot is a set: {} when the key is absent, {v} when it holds v.
\* The JSON slots hold the tree JSON.parse gives for their text; storage.unparseable
\* is the set of JSON keys whose text JSON.parse rejects.  A text (task text,
\* input text, the counter's string) is a sequence of characters.

\* JSON.stringify of a number: NaN is written as null
JsonNum(x) == IF x = NaN THEN Null ELSE x

\* JSON.stringify(timerSettings), as the tree JSON.parse gives back
StringifySettings(s) == [k \in TimerTypes |-> JsonNum(s[k])]

\* a stringify that writes every focus count as 0
StringifyTasksDropsCounts(ts) ==
    [i \in 1..Len(ts) |->
        [id |-> JsonNum(ts[i].id), text |-> ts[i].text,
         completed |-> ts[i].completed, pomodoros |-> 0]]

\* JSON.stringify(tasks), as the tree JSON.parse gives back
StringifyTasks(ts) ==
    [i \in 1..Len(ts) |->
        [id |-> JsonNum(ts[i].id), text |-> ts[i].text,
         completed |-> ts[i].completed, pomodoros |-> JsonNum(ts[i].pomodoros)]]

Digit(d) == <<"0", "1", "2", "3", "4", "5", "6", "7", "8", "9">>[d + 1]

RECURSIVE NatToString(_)
NatToString(n) ==
    IF n < 10 THEN <<Digit(n)>> ELSE NatToString(n \div 10) \o <<Digit(n % 10)>>

\* Number.prototype.toString(): a sequence of characters
NumberToString(n) ==
    IF n = NaN THEN <<"N", "a", "N">>
    ELSE IF n < 0 THEN <<"-">> \o NatToString(-n)
    ELSE NatToString(n)

DigitValue(c) == CHOOSE d \in 0..9 : Digit(d) = c

IsDigit(c) == \E d \in 0..9 : Digit(d) = c

RECURSIVE DigitsValue(_, _)
\* value of the longest prefix of digits of s, continuing from acc
DigitsValue(s, acc) ==
    IF s = <<>> \/ ~IsDigit(Head(s)) THEN acc
    ELSE DigitsValue(Tail(s), acc * 10 + DigitValue(Head(s)))

\* parseInt(s, 10): optional sign, then the leading digits; NaN when there are none
ParseInt(s) ==
    LET neg == s # <<>> /\ Head(s) = "-"
        body == IF neg THEN Tail(s) ELSE s
    IN  IF body = <<>> \/ ~IsDigit(Head(body)) THEN NaN
        ELSE IF neg THEN 0 - DigitsValue(body, 0) ELSE DigitsValue(body, 0)

\* ------------------------------------------------------------------ state
VARIABLES
    pc,                  \* "mount": first render done, effects not yet run;
                         \* "loaded": mount effects run, re-render pending; "ready"
    time,                \* [minutes, seconds]
    isActive,
    timerType,
    tasks,
    newTask,
    completedPomodoros,
    timerSettings,
    isMuted,
    interval,            \* live setInterval timers: each is the render closure its callback holds
    storage,             \* localStorage: the three keys
    now,                 \* Date.now()
    notified,            \* number of audio.play() calls made by the last step
    lastOp,              \* the handler or callback that made the last step
    edits,               \* settings edits made so far
    run                  \* the start-and-tick scenario under way (NoRun outside it)

vars == <<pc, time, isActive, timerType, tasks, newTask, completedPomodoros,
          timerSettings, isMuted, interval, storage, now, notified, lastOp, edits, run>>

\* The scenario record: the work minutes and the counter at start(), the ticks and
\* the audio.play() calls since.
NoRun == [minutes |-> 0, count |-> 0, ticks |-> -1, notifications |-> 0]

\* Values of the render that runs the tick effect, as seen by handleTimerComplete
\* when the interval callback calls it.
Closure(muted, type, settings) ==
    [isMuted |-> muted, timerType |-> type, timerSettings |-> settings]

\* A tick effect without cleanup: the previous interval stays live
TickEffectNoCleanup(active, muted, type, settings) ==
    interval \cup (IF active THEN {Closure(muted, type, settings)} ELSE {})

\* The tick effect with its cleanup: the previous interval is cleared and a new
\* one is created when isActive.
TickEffect(active, muted, type, settings) ==
    IF active THEN {Closure(muted, type, settings)} ELSE {}

\* ---------------------------------------------------------------- startup
\* A task of an earlier run: its id is a Date.now() before this run's
SavedTask == [id |-> 0, text |-> <<"A">>, completed |-> FALSE, pomodoros |-> 0]

\* What an earlier run can have left in localStorage.
SavedSettings == [work |-> 2, shortBreak |-> 1, longBreak |-> 3]

\* localStorage at startup: empty on the first run, or what an earlier run saved.
StoredStates ==
    { [tasks |-> {}, completed |-> {}, settings |-> {}, unparseable |-> {}],
      [tasks |-> {StringifyTasks(<<SavedTask>>)},
       completed |-> {NumberToString(1)},
       settings |-> {StringifySettings(SavedSettings)},
       unparseable |-> {}] }

Init ==
    /\ pc = "mount"
    /\ time = DefaultTime
    /\ isActive = FALSE
    /\ timerType = "work"
    /\ tasks = <<>>
    /\ newTask = <<>>
    /\ completedPomodoros = 0
    /\ timerSettings = DefaultTimerSettings
    /\ isMuted = FALSE
    /\ interval = {}
    /\ storage \in StoredStates
    /\ now = 1
    /\ notified = 0
    /\ lastOp = "render"
    /\ edits = 0
    /\ run = NoRun

\* The value of a present slot
Get(slot) == CHOOSE v \in slot : TRUE

\* Effects of the first render, in order: the load effect queues the loaded
\* values, then the three save effects write the values of the first render.
MountEffects ==
    /\ pc = "mount"
    /\ storage.unparseable = {}
    /\ tasks' = IF storage.tasks # {} THEN Get(storage.tasks) ELSE tasks
    /\ completedPomodoros' =
         IF storage.completed # {} THEN ParseInt(Get(storage.completed))
         ELSE completedPomodoros
    /\ timerSettings' =
         IF storage.settings # {} THEN Get(storage.settings) ELSE timerSettings
    /\ storage' = [tasks |-> {StringifyTasks(tasks)},
                   completed |-> {NumberToString(completedPomodoros)},
                   settings |-> {StringifySettings(timerSettings)},
                   unparseable |-> {}]
    /\ pc' = "loaded"
    /\ lastOp' = "mountEffects"
    /\ UNCHANGED <<time, isActive, timerType, newTask, isMuted, interval, now,
                   notified, edits, run>>

\* The re-render after the load: the save effects whose value changed run again.
\* (A slot whose value was not loaded already holds the stringified default.)
LoadCommit ==
    /\ pc = "loaded"
    /\ storage' = [tasks |-> {StringifyTasks(tasks)},
                   completed |-> {NumberToString(completedPomodoros)},
                   settings |-> {StringifySettings(timerSettings)},
                   unparseable |-> {}]
    /\ pc' = "ready"
    /\ lastOp' = "loadCommit"
    /\ UNCHANGED <<time, isActive, timerType, tasks, newTask, completedPomodoros,
                   timerSettings, isMuted, interval, now, notified, edits, run>>

\* ------------------------------------------------------------ save effects
\* The save effects a re-render runs: an effect runs again when its dependency
\* changed (tasks and timerSettings by identity, completedPomodoros by value).
SaveEffects(tasksSet, settingsSet, t, c, s) ==
    [tasks |-> IF tasksSet THEN {StringifyTasks(t)} ELSE storage.tasks,
     completed |-> IF c # completedPomodoros THEN {NumberToString(c)}
                   ELSE storage.completed,
     settings |-> IF settingsSet THEN {StringifySettings(s)} ELSE storage.settings,
     unparseable |-> (storage.unparseable \ (IF tasksSet THEN {"tasks"} ELSE {}))
                        \ (IF settingsSet THEN {"settings"} ELSE {})]

\* ------------------------------------------------------------------ timer
\* prev + 1 in JavaScript
Plus1(x) == IF x = NaN THEN NaN ELSE x + 1

\* switchTimer with the fixed durations of the version without a settings panel
SwitchTimerFixedDurations(type, settings) ==
    [timerType |-> type, time |-> [minutes |-> DefaultTimerSettings[type], seconds |-> 0]]

\* switchTimer(type) as called from a render whose timerSettings is settings:
\* the new timerType and time
SwitchTimerResult(type, settings) ==
    [timerType |-> type, time |-> [minutes |-> settings[type], seconds |-> 0]]

\* handleTimerComplete without setIsActive(false)
HandleTimerCompleteStaysActive(c) ==
    LET sw == SwitchTimerResult(IF c.timerType = "work" THEN "shortBreak" ELSE "work",
                                c.timerSettings)
    IN  [isActive |-> TRUE,
         played |-> IF ~c.isMuted THEN 1 ELSE 0,
         completedPomodoros |-> IF c.timerType = "work" THEN Plus1(completedPomodoros)
                                ELSE completedPomodoros,
         timerType |-> sw.timerType,
         time |-> sw.time]

\* handleTimerComplete counting every completed session, breaks included
HandleTimerCompleteCountsBreaks(c) ==
    LET sw == SwitchTimerResult(IF c.timerType = "work" THEN "shortBreak" ELSE "work",
                                c.timerSettings)
    IN  [isActive |-> FALSE,
         played |-> IF ~c.isMuted THEN 1 ELSE 0,
         completedPomodoros |-> Plus1(completedPomodoros),
         timerType |-> sw.timerType,
         time |-> sw.time]

\* handleTimerComplete with the classic rotation: a long break after every second
\* work session
HandleTimerCompleteLongBreak(c) ==
    LET next == IF c.timerType # "work" THEN "work"
                ELSE IF IsNum(completedPomodoros) /\ (completedPomodoros + 1) % 2 = 0
                     THEN "longBreak" ELSE "shortBreak"
        sw == SwitchTimerResult(next, c.timerSettings)
    IN  [isActive |-> FALSE,
         played |-> IF ~c.isMuted THEN 1 ELSE 0,
         completedPomodoros |-> IF c.timerType = "work" THEN Plus1(completedPomodoros)
                                ELSE completedPomodoros,
         timerType |-> sw.timerType,
         time |-> sw.time]

\* handleTimerComplete() of the render closure c: the state it sets
HandleTimerCompleteResult(c) ==
    LET sw == SwitchTimerResult(IF c.timerType = "work" THEN "shortBreak" ELSE "work",
                                c.timerSettings)
    IN  [isActive |-> FALSE,
         played |-> IF ~c.isMuted THEN 1 ELSE 0,
         completedPomodoros |-> IF c.timerType = "work" THEN Plus1(completedPomodoros)
                                ELSE completedPomodoros,
         timerType |-> sw.timerType,
         time |-> sw.time]

\* An interval callback that credits a completed work session to the first task
TickCreditsTask ==
    /\ pc = "ready"
    /\ \E c \in interval :
         IF time.seconds = 0
         THEN IF time.minutes = 0
              THEN LET r == HandleTimerCompleteResult(c)
                   IN  /\ r.completedPomodoros = NaN \/ r.completedPomodoros <= MaxPomodoros
                       /\ isActive' = r.isActive
                       /\ notified' = r.played
                       /\ completedPomodoros' = r.completedPomodoros
                       /\ timerType' = r.timerType
                       /\ time' = r.time
                       /\ interval' = TickEffect(r.isActive, isMuted, r.timerType, timerSettings)
                       /\ tasks' = IF c.timerType = "work" /\ tasks # <<>>
                                   THEN [tasks EXCEPT ![1].pomodoros = @ + 1]
                                   ELSE tasks
                       /\ storage' = SaveEffects(tasks' # tasks, FALSE, tasks',
                                                 r.completedPomodoros, timerSettings)
              ELSE /\ time' = [minutes |-> Minus1(time.minutes), seconds |-> 59]
                   /\ interval' = TickEffect(isActive, isMuted, timerType, timerSettings)
                   /\ notified' = 0
                   /\ UNCHANGED <<isActive, completedPomodoros, timerType, storage, tasks>>
         ELSE /\ time' = [time EXCEPT !.seconds = time.seconds - 1]
              /\ interval' = TickEffect(isActive, isMuted, timerType, timerSettings)
              /\ notified' = 0
              /\ UNCHANGED <<isActive, completedPomodoros, timerType, storage, tasks>>
    /\ lastOp' = "tick"
    /\ UNCHANGED <<pc, newTask, timerSettings, isMuted, now, edits>>

\* The interval callback: setTime(updater).  At 00:00 the updater clears the
\* interval and calls the handleTimerComplete it closed over; the time that
\* switchTimer sets there is the time of the next render.
Tick ==
    /\ pc = "ready"
    /\ \E c \in interval :
         IF time.seconds = 0
         THEN IF time.minutes = 0
              THEN LET r == HandleTimerCompleteResult(c)
                   IN  /\ r.completedPomodoros = NaN \/ r.completedPomodoros <= MaxPomodoros
                       /\ isActive' = r.isActive
                       /\ notified' = r.played
                       /\ completedPomodoros' = r.completedPomodoros
                       /\ timerType' = r.timerType
                       /\ time' = r.time
                       /\ interval' = TickEffect(r.isActive, isMuted, r.timerType, timerSettings)
                       /\ storage' = SaveEffects(FALSE, FALSE, tasks, r.completedPomodoros,
                                                 timerSettings)
              ELSE /\ time' = [minutes |-> Minus1(time.minutes), seconds |-> 59]
                   /\ interval' = TickEffect(isActive, isMuted, timerType, timerSettings)
                   /\ notified' = 0
                   /\ UNCHANGED <<isActive, completedPomodoros, timerType, storage>>
         ELSE /\ time' = [time EXCEPT !.seconds = time.seconds - 1]
              /\ interval' = TickEffect(isActive, isMuted, timerType, timerSettings)
              /\ notified' = 0
              /\ UNCHANGED <<isActive, completedPomodoros, timerType, storage>>
    /\ lastOp' = "tick"
    /\ UNCHANGED <<pc, tasks, newTask, timerSettings, isMuted, now, edits>>

\* toggleTimer that restarts the countdown when it starts
toggleTimerRestarts ==
    /\ pc = "ready"
    /\ isActive' = ~isActive
    /\ time' = IF isActive THEN time
               ELSE [minutes |-> timerSettings[timerType], seconds |-> 0]
    /\ interval' = TickEffect(~isActive, isMuted, timerType, timerSettings)
    /\ notified' = 0
    /\ lastOp' = "toggleTimer"
    /\ UNCHANGED <<pc, timerType, tasks, newTask, completedPomodoros,
                   timerSettings, isMuted, storage, now, edits>>

\* Start / Pause button
toggleTimer ==
    /\ pc = "ready"
    /\ isActive' = ~isActive
    /\ interval' = TickEffect(~isActive, isMuted, timerType, timerSettings)
    /\ notified' = 0
    /\ lastOp' = "toggleTimer"
    /\ UNCHANGED <<pc, time, timerType, tasks, newTask, completedPomodoros,
                   timerSettings, isMuted, storage, now, edits>>

\* resetTimer that leaves the timer running
resetTimerKeepsRunning ==
    /\ pc = "ready"
    /\ isActive' = isActive
    /\ time' = [minutes |-> timerSettings[timerType], seconds |-> 0]
    /\ interval' = TickEffect(isActive, isMuted, timerType, timerSettings)
    /\ notified' = 0
    /\ lastOp' = "resetTimer"
    /\ UNCHANGED <<pc, timerType, tasks, newTask, completedPomodoros,
                   timerSettings, isMuted, storage, now, edits>>

\* Reset button
resetTimer ==
    /\ pc = "ready"
    /\ isActive' = FALSE
    /\ time' = [minutes |-> timerSettings[timerType], seconds |-> 0]
    /\ interval' = TickEffect(FALSE, isMuted, timerType, timerSettings)
    /\ notified' = 0
    /\ lastOp' = "resetTimer"
    /\ UNCHANGED <<pc, timerType, tasks, newTask, completedPomodoros,
                   timerSettings, isMuted, storage, now, edits>>

\* Work / Short Break / Long Break buttons
switchTimer(type) ==
    /\ pc = "ready"
    /\ LET sw == SwitchTimerResult(type, timerSettings)
       IN  /\ timerType' = sw.timerType
           /\ time' = sw.time
    /\ interval' = TickEffect(isActive, isMuted, type, timerSettings)
    /\ notified' = 0
    /\ lastOp' = "switchTimer"
    /\ UNCHANGED <<pc, isActive, tasks, newTask, completedPomodoros,
                   timerSettings, isMuted, storage, now, edits>>

\* Mute button: the tick effect does not depend on isMuted and is not re-run
toggleMute ==
    /\ pc = "ready"
    /\ isMuted' = ~isMuted
    /\ notified' = 0
    /\ lastOp' = "toggleMute"
    /\ UNCHANGED <<pc, time, isActive, timerType, tasks, newTask, completedPomodoros,
                   timerSettings, interval, storage, now, edits>>

\* What parseInt(e.target.value) of a settings input can be: NaN for an emptied
\* field, or the number typed
DurationInputs == {NaN, 0, 1}

\* onChange of a settings input: the tick effect does not depend on
\* timerSettings and is not re-run
editSetting(key, value) ==
    /\ pc = "ready"
    /\ edits < MaxEdits
    /\ timerSettings' = [timerSettings EXCEPT ![key] = value]
    /\ storage' = SaveEffects(FALSE, TRUE, tasks, completedPomodoros, timerSettings')
    /\ edits' = edits + 1
    /\ notified' = 0
    /\ lastOp' = "editSetting"
    /\ UNCHANGED <<pc, time, isActive, timerType, tasks, newTask, completedPomodoros,
                   isMuted, interval, now>>

Startup == MountEffects \/ LoadCommit

TimerNext ==
    \/ (Tick /\ UNCHANGED run)
    \/ (toggleTimer /\ UNCHANGED run)
    \/ (resetTimer /\ UNCHANGED run)
    \/ (\E type \in TimerTypes : switchTimer(type) /\ UNCHANGED run)
    \/ (toggleMute /\ UNCHANGED run)

Next == Startup \/ TimerNext

Spec == Init /\ [][Next]_vars

\* The settings panel in use.  The run starts where the saved settings have been
\* loaded and Reset pressed (a state Spec reaches: MountEffects, LoadCommit,
\* resetTimer), so that every countdown is as short as the settings.
Configured ==
    /\ pc = "ready"
    /\ time = [minutes |-> SavedSettings.work, seconds |-> 0]
    /\ isActive = FALSE
    /\ timerType = "work"
    /\ tasks = <<SavedTask>>
    /\ newTask = <<>>
    /\ completedPomodoros = 1
    /\ timerSettings = SavedSettings
    /\ isMuted = FALSE
    /\ interval = {}
    /\ storage = [tasks |-> {StringifyTasks(<<SavedTask>>)},
                  completed |-> {NumberToString(1)},
                  settings |-> {StringifySettings(SavedSettings)},
                  unparseable |-> {}]
    /\ now = 1
    /\ notified = 0
    /\ lastOp = "resetTimer"
    /\ edits = 0
    /\ run = NoRun

SettingsNext ==
    \/ TimerNext
    \/ (\E key \in TimerTypes, value \in DurationInputs :
            editSetting(key, value) /\ UNCHANGED run)

SpecSettings == Configured /\ [][SettingsNext]_vars

\* The scenario of one uninterrupted session: after startup (and Reset, to show
\* the configured duration), start() and then ticks only.
RunReset ==
    /\ run = NoRun
    /\ resetTimer
    /\ UNCHANGED run

RunStart ==
    /\ run = NoRun
    /\ ~isActive
    /\ timerType = "work"
    /\ timerSettings.work > 0
    /\ time = [minutes |-> timerSettings.work, seconds |-> 0]
    /\ toggleTimer
    /\ run' = [minutes |-> timerSettings.work, count |-> completedPomodoros,
               ticks |-> 0, notifications |-> 0]

RunTick ==
    /\ run.ticks >= 0
    /\ Tick
    /\ run' = [run EXCEPT !.ticks = @ + 1, !.notifications = @ + notified']

RunNext == Startup \/ RunReset \/ RunStart \/ RunTick

SpecRun == Init /\ [][RunNext]_vars

\* ================================================================= claims
AtZero == time.minutes = 0 /\ time.seconds = 0

\* A step of the interval callback taken at 00:00: the completing tick
CompletingTick == AtZero /\ lastOp' = "tick"

\* The kind the transition policy selects after a session of the given kind
NextKind(kind) == IF kind = "work" THEN "shortBreak" ELSE "work"

\* C1: from a not-running Focus session showing d:00, start() and exactly d*60
\* ticks leave {ShortBreak, configured short break : 00, not running}, the counter
\* one higher and exactly one notification fired.
C1_StartThenTicksCompletes ==
    (run.ticks >= 0 /\ run.ticks = run.minutes * 60) =>
        /\ timerType = "shortBreak"
        /\ time = [minutes |-> timerSettings.shortBreak, seconds |-> 0]
        /\ ~isActive
        /\ completedPomodoros = run.count + 1
        /\ run.notifications = 1

\* What the code does: completion comes with tick d*60 + 1, the tick taken at 00:00.
C1_CompletesOneTickLater ==
    /\ (run.ticks >= 0 /\ run.ticks <= run.minutes * 60) =>
          /\ timerType = "work"
          /\ isActive
          /\ time.minutes * 60 + time.seconds = run.minutes * 60 - run.ticks
          /\ completedPomodoros = run.count
          /\ run.notifications = 0
    /\ run.ticks = run.minutes * 60 + 1 =>
          /\ timerType = "shortBreak"
          /\ time = [minutes |-> timerSettings.shortBreak, seconds |-> 0]
          /\ ~isActive
          /\ completedPomodoros = run.count + 1
          /\ run.notifications = 1

\* C2: a countdown completes exactly once: after the completing tick isActive is
\* false and no tick can fire until the user starts again; ticks fire only while
\* running, and one completion is at most one counter increment and one alert.
C2_SingleCompletion ==
    /\ [](~isActive => ~ENABLED Tick)
    /\ [][CompletingTick =>
            /\ ~isActive'
            /\ interval' = {}
            /\ completedPomodoros' \in {completedPomodoros, completedPomodoros + 1}
            /\ notified' <= 1]_vars

C2_Completed ==
    /\ lastOp = "tick"
    /\ ~isActive
    /\ interval = {}
    /\ timerType = "shortBreak"
    /\ notified = 1

\* C3: on completion the next kind follows from the completed kind, the counter
\* is incremented for Focus only, isActive is false and the remaining time is the
\* duration of the new kind under the configuration in force at that moment.
C3_CompletionTransition ==
    [][CompletingTick =>
        /\ timerType' = NextKind(timerType)
        /\ completedPomodoros' =
             IF timerType = "work" THEN completedPomodoros + 1 ELSE completedPomodoros
        /\ ~isActive'
        /\ time' = [minutes |-> timerSettings[NextKind(timerType)], seconds |-> 0]]_vars

\* C4: after startup the counter changes only by the completion of a Focus
\* session, which adds exactly 1; every other step leaves it unchanged.
C4_CounterCountsFocus ==
    [][pc = "ready" =>
        completedPomodoros' =
            IF CompletingTick /\ timerType = "work" THEN completedPomodoros + 1
            ELSE completedPomodoros]_vars

C4_FocusCounted ==
    /\ lastOp = "tick"
    /\ timerType = "shortBreak"
    /\ completedPomodoros = MaxPomodoros

\* C5: toggleTimer changes only isActive (start sets it, pause clears it), never
\* the remaining time or the kind, so a pause followed by a start resumes with
\* the remaining time as it was.
C5_ToggleOnlyRunning ==
    /\ [][lastOp' = "toggleTimer" =>
            /\ isActive' = ~isActive
            /\ time' = time
            /\ timerType' = timerType
            /\ completedPomodoros' = completedPomodoros]_vars
    /\ [][(~isActive /\ isActive') => (lastOp' = "toggleTimer" /\ time' = time)]_vars

C5_Resumed ==
    /\ lastOp = "toggleTimer"
    /\ isActive
    /\ time.seconds # 0

\* C6: after switchTimer(k) the kind is k, the remaining time is (configured
\* duration of k):00 and isActive is as before; switching while running keeps
\* the session running.
C6_SwitchSetsDuration ==
    [][\A k \in TimerTypes :
          (lastOp' = "switchTimer" /\ switchTimer(k)) =>
            /\ timerType' = k
            /\ time' = [minutes |-> timerSettings[k], seconds |-> 0]
            /\ isActive' = isActive
            /\ (isActive => interval' # {})]_vars

C6_SwitchedWhileRunning ==
    /\ lastOp = "switchTimer"
    /\ isActive
    /\ timerType = "longBreak"
    /\ timerSettings.longBreak > 0
    /\ timerSettings.longBreak # SavedSettings.longBreak
    /\ time = [minutes |-> timerSettings.longBreak, seconds |-> 0]

\* C7: resetTimer is always possible and leaves isActive false and the remaining
\* time at (configured duration of the current kind):00, with the kind, the
\* counter and the task list unchanged.
C7_ResetRestoresDuration ==
    /\ [](pc = "ready" => ENABLED resetTimer)
    /\ [][lastOp' = "resetTimer" =>
            /\ ~isActive'
            /\ interval' = {}
            /\ time' = [minutes |-> timerSettings[timerType], seconds |-> 0]
            /\ timerType' = timerType
            /\ completedPomodoros' = completedPomodoros
            /\ tasks' = tasks]_vars

C7_ResetAfterEdit ==
    /\ lastOp = "resetTimer"
    /\ tasks # <<>>
    /\ timerSettings[timerType] # SavedSettings[timerType]
    /\ timerSettings[timerType] > 0
    /\ time = [minutes |-> timerSettings[timerType], seconds |-> 0]

\* C8: in every state after startup 0 <= remaining seconds <= 60 * (configured
\* duration of the current kind).
C8_RemainingWithinDuration ==
    pc = "ready" =>
        /\ IsNum(time.minutes)
        /\ IsNum(timerSettings[timerType])
        /\ 0 <= time.minutes * 60 + time.seconds
        /\ time.minutes * 60 + time.seconds <= timerSettings[timerType] * 60

\* C9: every configured duration is a positive integer in every state.
C9_DurationsPositive ==
    \A k \in TimerTypes : IsNum(timerSettings[k]) /\ timerSettings[k] > 0

\* C10: a completion invokes the notification sink once if the mute flag is off
\* at that moment and not at all if it is on; the transition happens either way.
C10_NotificationFollowsMute ==
    [][CompletingTick =>
        /\ notified' = IF isMuted THEN 0 ELSE 1
        /\ ~isActive'
        /\ timerType' = NextKind(timerType)]_vars

\* ============================================================ task ledger
MaxTasks == 2            \* tasks in the list
MaxTaskPomodoros == 1    \* presses of + followed per task
MaxClock == 2            \* milliseconds Date.now() is followed over

\* Characters String.prototype.trim() removes
WhiteSpace == {" "}

RECURSIVE TrimStart(_)
TrimStart(s) ==
    IF s # <<>> /\ Head(s) \in WhiteSpace THEN TrimStart(Tail(s)) ELSE s

RECURSIVE TrimEnd(_)
TrimEnd(s) ==
    IF s # <<>> /\ s[Len(s)] \in WhiteSpace THEN TrimEnd(SubSeq(s, 1, Len(s) - 1))
    ELSE s

\* newTask.trim()
Trim(s) == TrimEnd(TrimStart(s))

\* What can be typed into the task input
TaskInputs == {<<>>, <<" ">>, <<"B", " ">>}

\* Ids a task handler can be called with: the last one is a time yet to come,
\* the id of no task
TaskIds == 0..(MaxClock + 1)

\* onChange of the task input
setNewTask(text) ==
    /\ pc = "ready"
    /\ newTask' = text
    /\ notified' = 0
    /\ lastOp' = "setNewTask"
    /\ UNCHANGED <<time, isActive, timerType, tasks, completedPomodoros,
                   timerSettings, isMuted, interval, storage, now, edits, pc>>

\* addTask that stores the trimmed text
AddTaskStoresTrimmed(ts, text, id) ==
    Append(ts, [id |-> id, text |-> Trim(text), completed |-> FALSE, pomodoros |-> 0])

\* The array addTask passes to setTasks
AddTaskResult(ts, text, id) ==
    Append(ts, [id |-> id, text |-> text, completed |-> FALSE, pomodoros |-> 0])

\* Add button: nothing is set when the trimmed input is empty
addTask ==
    /\ pc = "ready"
    /\ Len(tasks) < MaxTasks
    /\ IF Trim(newTask) # <<>>
       THEN /\ tasks' = AddTaskResult(tasks, newTask, now)
            /\ newTask' = <<>>
            /\ storage' = SaveEffects(TRUE, FALSE, tasks', completedPomodoros,
                                      timerSettings)
       ELSE UNCHANGED <<tasks, newTask, storage>>
    /\ notified' = 0
    /\ lastOp' = "addTask"
    /\ UNCHANGED <<time, isActive, timerType, completedPomodoros, timerSettings,
                   isMuted, interval, now, edits, pc>>

\* tasks.map(...) of toggleTaskCompletion
ToggleResult(ts, id) ==
    [i \in 1..Len(ts) |->
        IF ts[i].id = id THEN [ts[i] EXCEPT !.completed = ~ts[i].completed]
        ELSE ts[i]]

\* Complete / Undo button of a task
toggleTaskCompletion(id) ==
    /\ pc = "ready"
    /\ tasks' = ToggleResult(tasks, id)
    /\ storage' = SaveEffects(TRUE, FALSE, tasks', completedPomodoros, timerSettings)
    /\ notified' = 0
    /\ lastOp' = "toggleTaskCompletion"
    /\ UNCHANGED <<time, isActive, timerType, newTask, completedPomodoros,
                   timerSettings, isMuted, interval, now, edits, pc>>

\* tasks.map(...) of incrementTaskPomodoros
IncrementResult(ts, id) ==
    [i \in 1..Len(ts) |->
        IF ts[i].id = id THEN [ts[i] EXCEPT !.pomodoros = ts[i].pomodoros + 1]
        ELSE ts[i]]

\* + button of a task
incrementTaskPomodoros(id) ==
    /\ pc = "ready"
    /\ \A i \in 1..Len(tasks) :
           tasks[i].id = id => tasks[i].pomodoros < MaxTaskPomodoros
    /\ tasks' = IncrementResult(tasks, id)
    /\ storage' = SaveEffects(TRUE, FALSE, tasks', completedPomodoros, timerSettings)
    /\ notified' = 0
    /\ lastOp' = "incrementTaskPomodoros"
    /\ UNCHANGED <<time, isActive, timerType, newTask, completedPomodoros,
                   timerSettings, isMuted, interval, now, edits, pc>>

\* a filter that drops the last task when no id matches
RemoveResultDropsLast(ts, id) ==
    IF \A i \in 1..Len(ts) : ts[i].id # id
    THEN SubSeq(ts, 1, Len(ts) - 1)
    ELSE SelectSeq(ts, LAMBDA task : task.id # id)

\* tasks.filter(...) of removeTask
RemoveResult(ts, id) == SelectSeq(ts, LAMBDA task : task.id # id)

\* Remove button of a task
removeTask(id) ==
    /\ pc = "ready"
    /\ tasks' = RemoveResult(tasks, id)
    /\ storage' = SaveEffects(TRUE, FALSE, tasks', completedPomodoros, timerSettings)
    /\ notified' = 0
    /\ lastOp' = "removeTask"
    /\ UNCHANGED <<time, isActive, timerType, newTask, completedPomodoros,
                   timerSettings, isMuted, interval, now, edits, pc>>

\* Date.now() moves on by a millisecond
AdvanceClock ==
    /\ now < MaxClock
    /\ now' = now + 1
    /\ lastOp' = "clock"
    /\ UNCHANGED <<pc, time, isActive, timerType, tasks, newTask, completedPomodoros,
                   timerSettings, isMuted, interval, storage, notified, edits>>

\* The page is reloaded: the component is constructed again (the useState
\* initial values), localStorage stays.
Reload ==
    /\ pc = "ready"
    /\ pc' = "mount"
    /\ time' = DefaultTime
    /\ isActive' = FALSE
    /\ timerType' = "work"
    /\ tasks' = <<>>
    /\ newTask' = <<>>
    /\ completedPomodoros' = 0
    /\ timerSettings' = DefaultTimerSettings
    /\ isMuted' = FALSE
    /\ interval' = {}
    /\ notified' = 0
    /\ lastOp' = "reload"
    /\ UNCHANGED <<storage, now, edits>>

TasksNext ==
    \/ Startup
    \/ (\E text \in TaskInputs : setNewTask(text) /\ UNCHANGED run)
    \/ (addTask /\ UNCHANGED run)
    \/ (\E id \in TaskIds : toggleTaskCompletion(id) /\ UNCHANGED run)
    \/ (\E id \in TaskIds : incrementTaskPomodoros(id) /\ UNCHANGED run)
    \/ (\E id \in TaskIds : removeTask(id) /\ UNCHANGED run)
    \/ (AdvanceClock /\ UNCHANGED run)
    \/ (Reload /\ UNCHANGED run)

SpecTasks == Init /\ [][TasksNext]_vars

\* ------------------------------------------------------ task ledger claims
\* A text with no character other than white space
Blank(text) == \A i \in 1..Len(text) : text[i] = " "

\* C11: addTask with an empty or white-space-only input changes no task; with any
\* other input it appends exactly one task holding that text, not completed, with
\* focus count 0, and keeps the earlier tasks as they were, in order.
C11_AddTaskAppends ==
    [][lastOp' = "addTask" =>
          IF Blank(newTask) THEN tasks' = tasks
          ELSE /\ Len(tasks') = Len(tasks) + 1
               /\ SubSeq(tasks', 1, Len(tasks)) = tasks
               /\ tasks'[Len(tasks')].text = newTask
               /\ tasks'[Len(tasks')].completed = FALSE
               /\ tasks'[Len(tasks')].pomodoros = 0]_vars

\* A second task, with white space in its text, has just been appended
C11_Appended ==
    /\ lastOp = "addTask"
    /\ Len(tasks) = 2
    /\ tasks[2] = [id |-> now, text |-> <<"B", " ">>, completed |-> FALSE,
                   pomodoros |-> 0]

\* C12: the ids of the tasks are pairwise distinct in every reachable state, also
\* when two tasks are added without Date.now() advancing in between.
C12_TaskIdsDistinct ==
    \A i, j \in 1..Len(tasks) : i # j => tasks[i].id # tasks[j].id

\* Indices of the tasks a step changed
ChangedTasks == {i \in 1..Len(tasks) : i > Len(tasks') \/ tasks'[i] # tasks[i]}

\* No two tasks share an id before the step
DistinctIds == \A i, j \in 1..Len(tasks) : i # j => tasks[i].id # tasks[j].id

\* The step flipped completed of task i and nothing else of it
Flipped(i) == tasks'[i] = [tasks[i] EXCEPT !.completed = ~tasks[i].completed]

\* The step added 1 to the focus count of task i and nothing else of it
Incremented(i) == tasks'[i] = [tasks[i] EXCEPT !.pomodoros = tasks[i].pomodoros + 1]

\* C13: toggleCompletion(id) flips completed of the task with the matching id and
\* incrementFocusCount(id) adds exactly 1 to its focus count; no other field and
\* no other task changes, and the number and order of the tasks are kept.
C13_OneTaskOneField ==
    [][/\ lastOp' = "toggleTaskCompletion" =>
            /\ Len(tasks') = Len(tasks)
            /\ Cardinality(ChangedTasks) <= 1
            /\ \A i \in ChangedTasks : Flipped(i)
       /\ lastOp' = "incrementTaskPomodoros" =>
            /\ Len(tasks') = Len(tasks)
            /\ Cardinality(ChangedTasks) <= 1
            /\ \A i \in ChangedTasks : Incremented(i)]_vars

\* The same, for the steps taken while the ids are distinct
C13_OneTaskOneFieldIfDistinct ==
    [][DistinctIds =>
         /\ lastOp' = "toggleTaskCompletion" =>
              /\ Len(tasks') = Len(tasks)
              /\ Cardinality(ChangedTasks) <= 1
              /\ \A i \in ChangedTasks : Flipped(i)
         /\ lastOp' = "incrementTaskPomodoros" =>
              /\ Len(tasks') = Len(tasks)
              /\ Cardinality(ChangedTasks) <= 1
              /\ \A i \in ChangedTasks : Incremented(i)]_vars

\* tasks' is tasks without its i-th element
RemovedAt(i) ==
    tasks' = SubSeq(tasks, 1, i - 1) \o SubSeq(tasks, i + 1, Len(tasks))

\* C14: removeTask(id) removes the task with the matching id and leaves the
\* remaining tasks unchanged and in order (after adding A and B, removing A leaves
\* exactly B); a removeTask that finds no such task changes nothing, as the
\* repetition of a removeTask does.
C14_RemovesOneTask ==
    [][lastOp' = "removeTask" =>
          \/ tasks' = tasks
          \/ \E i \in 1..Len(tasks) : RemovedAt(i)]_vars

\* The same, for the steps taken while the ids are distinct
C14_RemovesOneTaskIfDistinct ==
    [][DistinctIds /\ lastOp' = "removeTask" =>
          \/ tasks' = tasks
          \/ \E i \in 1..Len(tasks) : RemovedAt(i)]_vars

\* No task has this id
UnknownId(id) == \A i \in 1..Len(tasks) : tasks[i].id # id

\* C15: toggleCompletion, incrementFocusCount and removeTask called with an id
\* that matches no task are silent no-ops: the task sequence stays identical, no
\* error state is entered, and the session state and the completed-focus counter
\* are unchanged.
C15_UnknownIdNoOp ==
    [][lastOp' \in {"toggleTaskCompletion", "incrementTaskPomodoros", "removeTask"} =>
          \/ /\ tasks' = tasks
             /\ pc' = "ready"
             /\ UNCHANGED <<time, isActive, timerType, completedPomodoros>>
          \/ ~\E id \in TaskIds :
                 /\ UnknownId(id)
                 /\ \/ toggleTaskCompletion(id)
                    \/ incrementTaskPomodoros(id)
                    \/ removeTask(id)]_vars

\* removeTask has run on a list that is still full: its id matched no task
C15_RemoveMissed ==
    /\ lastOp = "removeTask"
    /\ Len(tasks) = MaxTasks

\* C16: the task sequence in memory, saved under the task-list key, comes back
\* identical (ids, text, completed, focus count, order) after a restart and load:
\* at the restart the key holds what parses to the sequence in memory, the restart
\* keeps the key, the load effect takes the parsed value of the key, and the
\* re-render that ends the startup keeps it.
C16_TasksRoundTrip ==
    [][/\ lastOp' = "reload" =>
            /\ storage.tasks # {}
            /\ "tasks" \notin storage.unparseable
            /\ Get(storage.tasks) = tasks
            /\ storage' = storage
       /\ lastOp' = "mountEffects" /\ storage.tasks # {} =>
            tasks' = Get(storage.tasks)
       /\ lastOp' = "loadCommit" => tasks' = tasks]_vars

\* Two tasks, one of them completed with a focus count, are back after a restart
C16_Reloaded ==
    /\ lastOp = "loadCommit"
    /\ Len(tasks) = 2
    /\ tasks[1].id # tasks[2].id
    /\ \E i \in 1..2 : tasks[i].completed /\ tasks[i].pomodoros = 1

\* ===================================================== damaged localStorage
\* localStorage at startup with one key damaged and the others as saved: a text
\* JSON.parse rejects under pomodoro-tasks or timer-settings (the slot's tree is
\* then never looked at), or a text that is no number under completed-pomodoros.
DamagedStoredStates ==
    { [tasks |-> {<<>>}, completed |-> {NumberToString(1)},
       settings |-> {StringifySettings(SavedSettings)}, unparseable |-> {"tasks"}],
      [tasks |-> {StringifyTasks(<<SavedTask>>)}, completed |-> {NumberToString(1)},
       settings |-> {StringifySettings(SavedSettings)}, unparseable |-> {"settings"}],
      [tasks |-> {StringifyTasks(<<SavedTask>>)}, completed |-> {<<"x">>},
       settings |-> {StringifySettings(SavedSettings)}, unparseable |-> {}] }

InitDamaged ==
    /\ pc = "mount"
    /\ time = DefaultTime
    /\ isActive = FALSE
    /\ timerType = "work"
    /\ tasks = <<>>
    /\ newTask = <<>>
    /\ completedPomodoros = 0
    /\ timerSettings = DefaultTimerSettings
    /\ isMuted = FALSE
    /\ interval = {}
    /\ storage \in DamagedStoredStates
    /\ now = 1
    /\ notified = 0
    /\ lastOp = "render"
    /\ edits = 0
    /\ run = NoRun

\* JSON.parse throws in the load effect: nothing catches it, the effects after
\* it do not run and React unmounts the component tree.
LoadThrows ==
    /\ pc = "mount"
    /\ storage.unparseable # {}
    /\ pc' = "crashed"
    /\ lastOp' = "loadThrows"
    /\ UNCHANGED <<time, isActive, timerType, tasks, newTask, completedPomodoros,
                   timerSettings, isMuted, interval, storage, now, notified, edits,
                   run>>

DamagedNext == Startup \/ LoadThrows \/ TimerNext

SpecDamaged == InitDamaged /\ [][DamagedNext]_vars

\* C17: when a key cannot be loaded at startup the application goes on with the
\* defaults for that data: it never ends in a fatal error, and the counter is
\* never a value that is no number.
C17_LoadFailureFallsBack ==
    /\ pc # "crashed"
    /\ completedPomodoros \in Nat

\* ============================================== interval and ledger claims
\* C18: at most one interval is live at any moment: the tick effect's cleanup
\* clears the previous interval before a new one is created, a timer that is not
\* running (paused, reset, completed) has none, and a running one has exactly one,
\* so that a second is applied to the countdown once.
C18_OneIntervalAtMost ==
    /\ Cardinality(interval) <= 1
    /\ ~isActive => interval = {}
    /\ isActive => interval # {}

\* A tick of a running countdown has re-created the interval
C18_IntervalRecreated ==
    /\ lastOp = "tick"
    /\ isActive
    /\ Cardinality(interval) = 1

\* The timer and the per-task buttons together, from the configured state
LedgerNext ==
    \/ TimerNext
    \/ (\E id \in TaskIds : toggleTaskCompletion(id) /\ UNCHANGED run)
    \/ (\E id \in TaskIds : incrementTaskPomodoros(id) /\ UNCHANGED run)

SpecLedger == Configured /\ [][LedgerNext]_vars

\* C19: no tick and no completion of a session changes the task ledger; a focus
\* count or a completed flag changes only by incrementFocusCount or
\* toggleCompletion, never when a work session completes.
C19_TicksLeaveLedger ==
    [][/\ lastOp' = "tick" => tasks' = tasks
       /\ tasks' # tasks =>
            lastOp' \in {"toggleTaskCompletion", "incrementTaskPomodoros"}]_vars

\* A work session has completed next to a task whose count the user had raised
C19_CompletedBesideTask ==
    /\ lastOp = "tick"
    /\ timerType = "shortBreak"
    /\ completedPomodoros = 2
    /\ tasks = <<[SavedTask EXCEPT !.pomodoros = 1]>>

\* C20: the kind becomes long break only by switchTimer("longBreak"); no tick
\* and no completion sets it, however many work sessions have been completed.
C20_LongBreakOnlyManual ==
    [][/\ timerType' = "longBreak" /\ timerType # "longBreak" =>
            lastOp' = "switchTimer"
       /\ CompletingTick => timerType' # "longBreak"]_vars

\* A second work session has completed: the kind is short break
C20_SecondWorkCompleted ==
    /\ lastOp = "tick"
    /\ completedPomodoros = 2
    /\ timerType = "shortBreak"
    /\ ~isActive

\* ========================================================= storage claims
\* The value a key's stored text reads back as is the value in memory
TasksSaved ==
    /\ storage.tasks # {}
    /\ "tasks" \notin storage.unparseable
    /\ Get(storage.tasks) = tasks

CounterSaved ==
    /\ storage.completed # {}
    /\ ParseInt(Get(storage.completed)) = completedPomodoros

SettingsSaved ==
    /\ storage.settings # {}
    /\ "settings" \notin storage.unparseable
    /\ Get(storage.settings) = timerSettings

\* C21: every change of the task list, the counter or the durations is saved
\* under its key: in every quiescent state (the effects of the last render have
\* run) each of the three keys holds the value in memory.
C21_StorageMirrorsMemory ==
    pc = "ready" => TasksSaved /\ CounterSaved /\ SettingsSaved

\* The same, while every duration in memory is a number
C21_StorageMirrorsNumbers ==
    pc = "ready" /\ (\A k \in TimerTypes : IsNum(timerSettings[k]))
        => TasksSaved /\ CounterSaved /\ SettingsSaved

\* ========================================================== tick claims
\* minutes * 60 + seconds
Remaining == time.minutes * 60 + time.seconds

TimeInRange == time.seconds \in 0..59 /\ time.minutes \in Nat

\* C22: a tick that finds a remaining time above zero takes exactly one second
\* off it and completes nothing: with seconds above 0 only seconds goes down, at
\* seconds 0 the result is (minutes - 1, 59); with positive durations seconds
\* stays within 0..59 and minutes never goes below 0.
C22_TickTakesOneSecond ==
    [][/\ TimeInRange /\ TimeInRange'
       /\ lastOp' = "tick" /\ Remaining > 0 =>
            /\ Remaining' = Remaining - 1
            /\ time' = IF time.seconds > 0
                       THEN [minutes |-> time.minutes, seconds |-> time.seconds - 1]
                       ELSE [minutes |-> time.minutes - 1, seconds |-> 59]
            /\ isActive'
            /\ timerType' = timerType
            /\ completedPomodoros' = completedPomodoros]_vars

\* A tick has borrowed a minute
C22_Borrowed ==
    /\ lastOp = "tick"
    /\ isActive
    /\ time = [minutes |-> 24, seconds |-> 59]

\* Every live interval holds the timerSettings of the current render
FreshSettings == \A c \in interval : c.timerSettings = timerSettings

\* C23: a tick that finds a running timer at 00:00 (a duration of 0 was started,
\* or switched to while running) completes the session at once and takes no
\* second off: the time does not go below zero and the completion transition is
\* applied (not running, next kind, counter raised for work only, the time set to
\* the duration of the next kind).
C23_ZeroCompletesAtOnce ==
    [][lastOp' = "tick" /\ isActive /\ AtZero =>
          /\ time' # [minutes |-> -1, seconds |-> 59]
          /\ time'.seconds = 0
          /\ time'.minutes = timerSettings[NextKind(timerType)]
          /\ ~isActive'
          /\ interval' = {}
          /\ timerType' = NextKind(timerType)
          /\ completedPomodoros' =
               IF timerType = "work" THEN completedPomodoros + 1
               ELSE completedPomodoros]_vars

\* The same, for the ticks of an interval created under the current settings
C23_ZeroCompletesAtOnceIfFresh ==
    [][FreshSettings /\ lastOp' = "tick" /\ isActive /\ AtZero =>
          /\ time' # [minutes |-> -1, seconds |-> 59]
          /\ time'.seconds = 0
          /\ time'.minutes = timerSettings[NextKind(timerType)]
          /\ ~isActive'
          /\ interval' = {}
          /\ timerType' = NextKind(timerType)
          /\ completedPomodoros' =
               IF timerType = "work" THEN completedPomodoros + 1
               ELSE completedPomodoros]_vars

\* ====================================================== hands-off session
\* The user sets the timer up (settings, Reset, kind buttons), starts it and
\* then does nothing: from the start on only the interval callback runs, and it
\* runs whenever an interval is live (setInterval keeps firing).
HandsOffSetup ==
    /\ run = NoRun
    /\ \/ resetTimer
       \/ \E type \in TimerTypes : switchTimer(type)
       \/ \E key \in TimerTypes, value \in DurationInputs : editSetting(key, value)
    /\ UNCHANGED run

HandsOffStart ==
    /\ run = NoRun
    /\ ~isActive
    /\ toggleTimer
    /\ run' = [minutes |-> time.minutes, count |-> completedPomodoros,
               ticks |-> 0, notifications |-> 0]

HandsOffTick ==
    /\ run.ticks >= 0
    /\ Tick
    /\ UNCHANGED run

HandsOffNext == HandsOffSetup \/ HandsOffStart \/ HandsOffTick

SpecHandsOff ==
    Configured /\ [][HandsOffNext]_vars /\ WF_vars(HandsOffTick)

\* The session started and left alone
LeftRunning(kind) == run.ticks >= 0 /\ isActive /\ timerType = kind

\* C24: a running session the user leaves alone completes under fair ticks: a
\* state that is not running, with the kind the transition policy selects, is
\* eventually reached.
C24_LeftAloneCompletes ==
    \A kind \in TimerTypes :
        LeftRunning(kind) ~> (~isActive /\ timerType = NextKind(kind))

\* The same, for a session started with a number of minutes on the clock
C24_LeftAloneCompletesIfNumber ==
    \A kind \in TimerTypes :
        (LeftRunning(kind) /\ IsNum(time.minutes))
            ~> (~isActive /\ timerType = NextKind(kind))

\* ======================================================== startup claims
\* localStorage as an earlier run saved it
SavedStorage ==
    [tasks |-> {StringifyTasks(<<SavedTask>>)},
     completed |-> {NumberToString(1)},
     settings |-> {StringifySettings(SavedSettings)},
     unparseable |-> {}]

\* Memory holds what the earlier run saved
SavedInMemory ==
    /\ tasks = <<SavedTask>>
    /\ completedPomodoros = 1
    /\ timerSettings = SavedSettings

\* C25: a startup on saved data leaves every key as it was saved at each of its
\* steps (the mount effects, the re-render after the load), never the defaults,
\* and ends with the saved values in memory.
C25_StartupKeepsSaved ==
    [][pc # "ready" /\ storage = SavedStorage =>
          /\ storage' = SavedStorage
          /\ pc' = "ready" => SavedInMemory']_vars

\* What the startup does reach: after its last step memory and every key hold
\* the saved values again
C25_SavedAfterStartup ==
    [][pc = "loaded" /\ SavedInMemory =>
          /\ storage' = SavedStorage
          /\ SavedInMemory']_vars

====
